---- MODULE Spec2Model ----
(***************************************************************************)
(* scrann: a screenshot annotation window (Main) that routes pointer       *)
(* events to one of three tools (Pen, Rectangle, Crop).  Each tool keeps a *)
(* vector history and an own surface; Main keeps the base image context,   *)
(* the session colour and the current tool.                                *)
(*                                                                         *)
(* Python's None is modelled by the empty tuple for points and colours     *)
(* (NoPoint, NoColor) and by the string "None" for the current tool.  An   *)
(* exception that leaves a handler is recorded in err; the assignments the *)
(* handler made before raising are kept, as in Python.                     *)
(***************************************************************************)
EXTENDS Integers, Sequences, FiniteSets, TLC

VARIABLES
    current_tool,   \* Main._current_tool: "None" or a tool label
    color,          \* Main._color
    pen,            \* the Pen instance of Main._tools
    rect,           \* the Rectangle instance of Main._tools
    crop,           \* the Crop instance of Main._tools
    image,          \* target surface of Main._image_context
    painted,        \* what flattening has painted onto the base image
    image_rect,     \* Main._image_rect
    default_size,   \* the window's default size, as set_default_size left it
    output,         \* what the last save / copy handed to its sink
    preview,        \* what the last repaint put on the screen
    err,            \* exception raised by the last handler, or "none"
    lastOp,         \* observer: the handler that ran last and what it was given
    prevOp,         \* observer: the handler that ran before it
    gesture,        \* observer: per tool, the events delivered since its press
    steps,          \* observer: number of handlers run so far
    \* startup: scrann.main and scrann.dbus
    pc,             \* where main() is
    argv,           \* sys.argv
    fs,             \* what os.stat does with the file named in argv
    subscribed,     \* signal_callback is subscribed to the portal's Response
    num_try,        \* num_try of retry
    attempts,       \* observer: the outcome of every call retry made
    result,         \* what retry returned or raised
    pending,        \* portal requests whose Response is still to come
    notifier,       \* the Notifier: its last id, and the calls it made
    started,        \* the file names start_callback was called with, each
                    \* a sequence of the pieces of the name
    \* replay: two instances of one tool class, outside any window
    replay          \* the two instances and what they were fed

wvars == <<current_tool, color, pen, rect, crop, image, painted, image_rect,
           default_size, output, preview, err, lastOp, prevOp, gesture, steps>>

svars == <<pc, argv, fs, subscribed, num_try, attempts, result, pending,
           notifier, started>>

rvars == <<replay>>

vars == <<wvars, svars, rvars>>

-----------------------------------------------------------------------------
(* Bounds of the exploration *)

\* number of handler invocations explored
MaxSteps == 6
\* size of the PNG the window is opened with
InitWidth == 4
InitHeight == 3

\* pointer positions an event can carry
Points == {<<1, 1>>, <<3, 2>>}

NoPoint == <<>>
NoColor == <<>>

Red == <<1, 0, 0, 1>>
Blue == <<0, 0, 1, 1>>
\* colours the colour chooser can return
Colors == {Red, Blue}

ToolLabels == {"Pen", "Rectangle", "Crop"}
\* Main._tools, in construction order
RegisteredTools == <<"Pen", "Rectangle", "Crop">>

Abs(n) == IF n < 0 THEN -n ELSE n
Min(a, b) == IF a < b THEN a ELSE b
ButLast(s) == SubSeq(s, 1, Len(s) - 1)

-----------------------------------------------------------------------------
(* Tool._clear_surface: paint with operator CLEAR *)
ClearSurface == <<>>

-----------------------------------------------------------------------------
(* Pen *)

Pen_line_width == 3

Pen_init ==
    [paths |-> <<>>, path |-> <<>>, color |-> NoColor,
     line_width |-> 0,      \* the context's width until set_line_width is called
     surface |-> ClearSurface]

\* Pen._draw_path after set_source_rgba: one stroked segment per consecutive pair
Pen_segments(points, c, w) ==
    [i \in 1..(Len(points) - 1) |->
        [from |-> points[i], to |-> points[i + 1], color |-> c, width |-> w]]

\* Pen._draw_path: set_source_rgba(*color) raises TypeError when color is None
RECURSIVE Pen_draw_paths(_, _, _)
Pen_draw_paths(paths, w, surf) ==
    IF paths = <<>> THEN [surface |-> surf, err |-> "none"]
    ELSE IF Head(paths).color = NoColor THEN [surface |-> surf, err |-> "TypeError"]
    ELSE Pen_draw_paths(Tail(paths), w,
                        surf \o Pen_segments(Head(paths).points, Head(paths).color, w))

Pen_draw(p) ==
    LET h == Pen_draw_paths(p.paths, p.line_width, ClearSurface) IN
    IF h.err # "none"
    THEN [tool |-> [p EXCEPT !.surface = h.surface], err |-> h.err]
    ELSE IF p.color = NoColor
    THEN [tool |-> [p EXCEPT !.surface = h.surface], err |-> "TypeError"]
    ELSE [tool |-> [p EXCEPT !.surface =
                        h.surface \o Pen_segments(p.path, p.color, p.line_width)],
          err |-> "none"]

Pen_on_mouse_press(p, event, c) ==
    [tool |-> [p EXCEPT !.color = c, !.line_width = Pen_line_width], err |-> "none"]

\* variant: the stroke keeps a reference to the buffer that is emptied next
Pen_on_mouse_release_aliased(p, event) ==
    [tool |-> [p EXCEPT !.paths = Append(@, [points |-> <<>>, color |-> p.color]),
                        !.path = <<>>],
     err |-> "none"]

Pen_on_mouse_release(p, event) ==
    [tool |-> [p EXCEPT !.paths = Append(@, [points |-> p.path, color |-> p.color]),
                        !.path = <<>>],
     err |-> "none"]

Pen_on_mouse_move(p, event) ==
    Pen_draw([p EXCEPT !.path = Append(@, event)])

\* variant: the oldest stroke is removed instead of the newest
Pen_undo_pops_first(p) ==
    IF Len(p.paths) > 0
    THEN Pen_draw([p EXCEPT !.paths = Tail(@)])
    ELSE [tool |-> p, err |-> "none"]

Pen_undo(p) ==
    IF Len(p.paths) > 0
    THEN Pen_draw([p EXCEPT !.paths = ButLast(@)])
    ELSE [tool |-> p, err |-> "none"]

-----------------------------------------------------------------------------
(* Rectangle *)

Rectangle_init ==
    [rectangles |-> <<>>, start_point |-> NoPoint, end_point |-> NoPoint,
     color |-> NoColor, surface |-> ClearSurface]

\* Rectangle._draw_rectangle: TypeError on a None colour or a None point
Rectangle_draw_rectangle(surf, start_point, end_point, c) ==
    IF c = NoColor \/ start_point = NoPoint \/ end_point = NoPoint
    THEN [surface |-> surf, err |-> "TypeError"]
    ELSE [surface |-> Append(surf, [at |-> start_point,
                                    width |-> end_point[1] - start_point[1],
                                    height |-> end_point[2] - start_point[2],
                                    color |-> c]),
          err |-> "none"]

RECURSIVE Rectangle_draw_all(_, _)
Rectangle_draw_all(rs, surf) ==
    IF rs = <<>> THEN [surface |-> surf, err |-> "none"]
    ELSE LET d == Rectangle_draw_rectangle(surf, Head(rs).points[1],
                                           Head(rs).points[2], Head(rs).color)
         IN IF d.err # "none" THEN d ELSE Rectangle_draw_all(Tail(rs), d.surface)

Rectangle_draw(r) ==
    LET h == Rectangle_draw_all(r.rectangles, ClearSurface) IN
    IF h.err # "none" \/ r.start_point = NoPoint
    THEN [tool |-> [r EXCEPT !.surface = h.surface], err |-> h.err]
    ELSE LET d == Rectangle_draw_rectangle(h.surface, r.start_point, r.end_point, r.color)
         IN [tool |-> [r EXCEPT !.surface = d.surface], err |-> d.err]

Rectangle_on_mouse_press(r, event, c) ==
    [tool |-> [r EXCEPT !.color = c, !.start_point = event, !.end_point = event],
     err |-> "none"]

\* variant: the shape is committed before the end point is taken from the event
Rectangle_on_mouse_release_stale_end(r, event) ==
    Rectangle_draw([r EXCEPT
        !.rectangles = Append(@, [points |-> <<r.start_point, r.end_point>>,
                                  color |-> r.color]),
        !.start_point = NoPoint,
        !.end_point = NoPoint])

Rectangle_on_mouse_release(r, event) ==
    Rectangle_draw([r EXCEPT
        !.rectangles = Append(@, [points |-> <<r.start_point, event>>, color |-> r.color]),
        !.start_point = NoPoint,
        !.end_point = NoPoint])

Rectangle_on_mouse_move(r, event) ==
    Rectangle_draw([r EXCEPT !.end_point = event])

\* variant: pop() without the length test raises IndexError on an empty list
Rectangle_undo_unguarded(r) ==
    IF Len(r.rectangles) > 0
    THEN Rectangle_draw([r EXCEPT !.rectangles = ButLast(@)])
    ELSE [tool |-> r, err |-> "IndexError"]

Rectangle_undo(r) ==
    IF Len(r.rectangles) > 0
    THEN Rectangle_draw([r EXCEPT !.rectangles = ButLast(@)])
    ELSE [tool |-> r, err |-> "none"]

-----------------------------------------------------------------------------
(* Crop *)

Crop_init ==
    [start_point |-> NoPoint, end_point |-> NoPoint, surface |-> ClearSurface]

\* Crop._draw: fill() with no current path paints nothing; the selection
\* rectangle is then filled with (0, 0, 0, 0.8)
Crop_draw(c) ==
    IF c.start_point = NoPoint \/ c.end_point = NoPoint
    THEN [tool |-> c, err |-> "none"]
    ELSE [tool |-> [c EXCEPT !.surface =
                      <<[at |-> c.start_point,
                         width |-> c.end_point[1] - c.start_point[1],
                         height |-> c.end_point[2] - c.start_point[2],
                         color |-> "selection"]>>],
          err |-> "none"]

Crop_on_mouse_press(c, event, col) ==
    [tool |-> [c EXCEPT !.start_point = event, !.end_point = event,
                        !.surface = ClearSurface],
     err |-> "none"]

\* variant: the release forgets the start point, as Rectangle's does
Crop_on_mouse_release_resets(c, event) ==
    [tool |-> [c EXCEPT !.start_point = NoPoint, !.end_point = event,
                        !.surface = ClearSurface],
     err |-> "none"]

Crop_on_mouse_release(c, event) ==
    [tool |-> [c EXCEPT !.end_point = event, !.surface = ClearSurface], err |-> "none"]

Crop_on_mouse_move(c, event) ==
    Crop_draw([c EXCEPT !.end_point = event])

Crop_undo(c) == [tool |-> c, err |-> "none"]

\* the matrix of a cairo.Context the program never transforms
ContextMatrix == [xx |-> 1, xy |-> 0, yx |-> 0, yy |-> 1, x0 |-> 0, y0 |-> 0]

user_to_device(m, p) ==
    <<m.xx * p[1] + m.xy * p[2] + m.x0, m.yx * p[1] + m.yy * p[2] + m.y0>>

\* Surface.create_for_rectangle: a view of target at (x, y), width by height;
\* x and y are kept as offsets into the surface the window was opened with
create_for_rectangle(target, x, y, width, height) ==
    [x |-> target.x + x, y |-> target.y + y, width |-> width, height |-> height]

Crop_update_surface(c, target) ==
    IF c.start_point = NoPoint \/ c.end_point = NoPoint
    THEN [surface |-> target, err |-> "TypeError"]
    ELSE LET start == user_to_device(ContextMatrix, c.start_point)
             end == user_to_device(ContextMatrix, c.end_point)
             height == Abs(end[2] - start[2])
             width == Abs(end[1] - start[1])
         IN [surface |-> create_for_rectangle(target, start[1], start[2], width, height),
             err |-> "none"]

-----------------------------------------------------------------------------
(* Main: the window *)

NoGesture == <<>>
NoOp == [op |-> "init", tool |-> "None", pt |-> NoPoint, g |-> NoGesture, hist0 |-> <<>>]
NoOutput == [sink |-> "none", width |-> 0, height |-> 0, order |-> <<>>]
NoPreview == [base |-> <<>>, layers |-> <<>>]

\* the committed history of a tool (Crop keeps none)
History(t, p, r) ==
    IF t = "Pen" THEN p.paths ELSE IF t = "Rectangle" THEN r.rectangles ELSE <<>>

Observe(op, pt) ==
    /\ steps < MaxSteps
    /\ steps' = steps + 1
    /\ UNCHANGED <<svars, rvars>>
    /\ prevOp' = lastOp
    /\ lastOp' = [op |-> op, tool |-> current_tool, pt |-> pt,
                  g |-> IF current_tool \in ToolLabels
                        THEN gesture[current_tool] ELSE NoGesture,
                  hist0 |-> History(current_tool, pen, rect)]

\* Main.__init__ and _setup_image_surface
WindowInit ==
    /\ current_tool = "None"
    /\ color = Red
    /\ pen = Pen_init
    /\ rect = Rectangle_init
    /\ crop = Crop_init
    /\ image = [x |-> 0, y |-> 0, width |-> InitWidth, height |-> InitHeight]
    /\ painted = <<>>
    /\ image_rect = [width |-> InitWidth, height |-> InitHeight]
    /\ default_size = <<InitWidth, InitHeight>>
    /\ output = NoOutput
    /\ preview = NoPreview
    /\ err = "none"
    /\ lastOp = NoOp
    /\ prevOp = NoOp
    /\ gesture = [t \in ToolLabels |-> NoGesture]
    /\ steps = 0

\* two fresh instances of a tool class, nothing fed to them yet
Replay_init(kind) ==
    [kind |-> kind,
     a |-> IF kind = "Pen" THEN Pen_init ELSE Rectangle_init,
     b |-> IF kind = "Pen" THEN Pen_init ELSE Rectangle_init,
     same |-> TRUE,     \* observer: both were fed the same events so far
     fed |-> 0]         \* observer: number of events fed

\* the window of a program started with the name of an existing file
Init ==
    /\ WindowInit
    /\ replay = Replay_init("Pen")
    /\ pc = "gtk_main"
    /\ argv = <<"scrann", "shot.png">>
    /\ fs = "exists"
    /\ subscribed = FALSE
    /\ num_try = 0
    /\ attempts = <<>>
    /\ result = [kind |-> "none", value |-> "None"]
    /\ pending = <<>>
    /\ notifier = [last_notification_id |-> 0, sent |-> <<>>, closed |-> <<>>]
    /\ started = <<(<<"shot.png">>)>>

\* variant: the switch drops what the tools hold in progress
ChangeTool_finalizes(tool) ==
    /\ Observe("change_tool", NoPoint)
    /\ UNCHANGED preview
    /\ current_tool' = tool
    /\ pen' = [pen EXCEPT !.path = <<>>]
    /\ rect' = [rect EXCEPT !.start_point = NoPoint, !.end_point = NoPoint]
    /\ err' = "none"
    /\ UNCHANGED <<color, crop, image, painted, image_rect, default_size,
                   output, gesture>>

\* the 'toggled' callback Main._change_tool(tool) returns
ChangeTool(tool) ==
    /\ Observe("change_tool", NoPoint)
    /\ UNCHANGED preview
    /\ current_tool' = tool
    /\ err' = "none"
    /\ UNCHANGED <<color, pen, rect, crop, image, painted, image_rect, default_size,
                   output, gesture>>

\* variant: the chosen colour is also pushed into the tools
OpenColorChooser_recolors(response_ok, rgba) ==
    /\ Observe("color", NoPoint)
    /\ UNCHANGED preview
    /\ color' = IF response_ok THEN rgba ELSE color
    /\ pen' = IF response_ok THEN [pen EXCEPT !.color = rgba] ELSE pen
    /\ rect' = IF response_ok THEN [rect EXCEPT !.color = rgba] ELSE rect
    /\ err' = "none"
    /\ UNCHANGED <<current_tool, crop, image, painted, image_rect,
                   default_size, output, gesture>>

\* Main._setup_color.open_color_chooser
OpenColorChooser(response_ok, rgba) ==
    /\ Observe("color", NoPoint)
    /\ UNCHANGED preview
    /\ color' = IF response_ok THEN rgba ELSE color
    /\ err' = "none"
    /\ UNCHANGED <<current_tool, pen, rect, crop, image, painted, image_rect,
                   default_size, output, gesture>>

\* variant: the event is handed to every tool of Main._tools
Dispatch_broadcast(onPen, onRectangle, onCrop) ==
    IF current_tool \in ToolLabels
    THEN [pen |-> onPen.tool, rect |-> onRectangle.tool, crop |-> onCrop.tool,
          err |-> IF current_tool = "Pen" THEN onPen.err
                  ELSE IF current_tool = "Rectangle" THEN onRectangle.err ELSE onCrop.err]
    ELSE [pen |-> pen, rect |-> rect, crop |-> crop, err |-> "AttributeError"]

\* what a handler of the current tool returns, routed by its label; an
\* attribute looked up on None raises AttributeError
Dispatch(onPen, onRectangle, onCrop) ==
    IF current_tool = "Pen" THEN [pen |-> onPen.tool, rect |-> rect, crop |-> crop, err |-> onPen.err]
    ELSE IF current_tool = "Rectangle"
    THEN [pen |-> pen, rect |-> onRectangle.tool, crop |-> crop, err |-> onRectangle.err]
    ELSE IF current_tool = "Crop"
    THEN [pen |-> pen, rect |-> rect, crop |-> onCrop.tool, err |-> onCrop.err]
    ELSE [pen |-> pen, rect |-> rect, crop |-> crop, err |-> "AttributeError"]

\* Main.on_mouse_press
OnMousePress(event) ==
    LET d == Dispatch(Pen_on_mouse_press(pen, event, color),
                      Rectangle_on_mouse_press(rect, event, color),
                      Crop_on_mouse_press(crop, event, color))
    IN /\ Observe("press", event)
       /\ UNCHANGED preview
       /\ pen' = d.pen /\ rect' = d.rect /\ crop' = d.crop /\ err' = d.err
       /\ gesture' = IF current_tool \in ToolLabels
                     THEN [gesture EXCEPT ![current_tool] =
                              <<[p0 |-> event, color |-> color, moves |-> <<>>]>>]
                     ELSE gesture
       /\ UNCHANGED <<current_tool, color, image, painted, image_rect, default_size, output>>

\* Main.on_mouse_move
OnMouseMove(event) ==
    LET d == Dispatch(Pen_on_mouse_move(pen, event),
                      Rectangle_on_mouse_move(rect, event),
                      Crop_on_mouse_move(crop, event))
    IN /\ Observe("move", event)
       /\ UNCHANGED preview
       /\ pen' = d.pen /\ rect' = d.rect /\ crop' = d.crop /\ err' = d.err
       /\ gesture' = IF current_tool \in ToolLabels /\ gesture[current_tool] # NoGesture
                     THEN [gesture EXCEPT ![current_tool] =
                              <<[@[1] EXCEPT !.moves = Append(@, event)]>>]
                     ELSE gesture
       /\ UNCHANGED <<current_tool, color, image, painted, image_rect, default_size, output>>

\* Main._update_image_surface: image_rect is a local there, Main._image_rect stays
Main_update_image_surface(surface) ==
    /\ default_size' = <<surface.width, surface.height>>
    /\ image' = surface
    /\ UNCHANGED image_rect

\* Main.on_mouse_release: on_mouse_release of the tool, then update_surface of
\* the tool (only Crop defines it), then _update_image_surface
OnMouseRelease(event) ==
    LET d == Dispatch(Pen_on_mouse_release(pen, event),
                      Rectangle_on_mouse_release(rect, event),
                      Crop_on_mouse_release(crop, event))
        u == Crop_update_surface(d.crop, image)
    IN /\ Observe("release", event)
       /\ UNCHANGED preview
       /\ pen' = d.pen /\ rect' = d.rect /\ crop' = d.crop
       /\ gesture' = IF current_tool \in ToolLabels
                     THEN [gesture EXCEPT ![current_tool] = NoGesture]
                     ELSE gesture
       /\ IF d.err # "none"
          THEN err' = d.err /\ UNCHANGED <<image, image_rect, default_size>>
          ELSE IF current_tool # "Crop"
          THEN err' = "AttributeError" /\ UNCHANGED <<image, image_rect, default_size>>
          ELSE IF u.err # "none"
          THEN err' = u.err /\ UNCHANGED <<image, image_rect, default_size>>
          ELSE err' = "none" /\ Main_update_image_surface(u.surface)
       /\ UNCHANGED <<current_tool, color, painted, output>>

\* variant: undo is handed to both drawing tools
OnUndo_every_tool ==
    LET d == Dispatch(Pen_undo(pen), Rectangle_undo(rect), Crop_undo(crop))
    IN /\ Observe("undo", NoPoint)
       /\ UNCHANGED preview
       /\ pen' = Pen_undo(pen).tool /\ rect' = Rectangle_undo(rect).tool
       /\ crop' = d.crop /\ err' = d.err
       /\ UNCHANGED <<current_tool, color, image, painted, image_rect, default_size,
                      output, gesture>>

\* Main.on_undo
OnUndo ==
    LET d == Dispatch(Pen_undo(pen), Rectangle_undo(rect), Crop_undo(crop))
    IN /\ Observe("undo", NoPoint)
       /\ UNCHANGED preview
       /\ pen' = d.pen /\ rect' = d.rect /\ crop' = d.crop /\ err' = d.err
       /\ UNCHANGED <<current_tool, color, image, painted, image_rect, default_size,
                      output, gesture>>

\* the loop of copy_to_clipboard and save_to_file: every tool surface is
\* painted onto the target of _image_context, in the order of Main._tools
SurfaceOf(t) == IF t = "Pen" THEN pen.surface
                ELSE IF t = "Rectangle" THEN rect.surface ELSE crop.surface

\* variant: the surface of the current tool is painted last, on top
Flatten_current_on_top ==
    LET others == SelectSeq(RegisteredTools, LAMBDA t : t # current_tool)
        order == IF current_tool \in ToolLabels THEN Append(others, current_tool)
                 ELSE RegisteredTools
    IN [i \in 1..Len(order) |->
           [tool |-> order[i], surface |-> SurfaceOf(order[i]),
            x |-> image.x, y |-> image.y]]

Flatten ==
    [i \in 1..Len(RegisteredTools) |->
        [tool |-> RegisteredTools[i], surface |-> SurfaceOf(RegisteredTools[i]),
         x |-> image.x, y |-> image.y]]

\* Main.copy_to_clipboard: the pixbuf is cut with the size in Main._image_rect
CopyToClipboard ==
    /\ Observe("copy", NoPoint)
    /\ UNCHANGED preview
    /\ painted' = painted \o Flatten
    /\ output' = [sink |-> "clipboard", width |-> image_rect.width,
                  height |-> image_rect.height,
                  order |-> [i \in 1..Len(Flatten) |-> Flatten[i].tool]]
    /\ err' = "none"
    /\ UNCHANGED <<current_tool, color, pen, rect, crop, image, image_rect,
                   default_size, gesture>>

\* Main.save_to_file: write_to_png writes the whole target surface
SaveToFile ==
    /\ Observe("save", NoPoint)
    /\ UNCHANGED preview
    /\ painted' = painted \o Flatten
    /\ output' = [sink |-> "file", width |-> image.width, height |-> image.height,
                  order |-> [i \in 1..Len(Flatten) |-> Flatten[i].tool]]
    /\ err' = "none"
    /\ UNCHANGED <<current_tool, color, pen, rect, crop, image, image_rect,
                   default_size, gesture>>

\* Main.on_draw: the base image is painted at Main.offset
OnDraw == [surface |-> image, painted |-> painted, offset |-> <<0, 0>>]

\* Main.on_draw_annotations: every tool surface is painted onto the widget's
\* context, in the order of Main._tools
OnDrawAnnotations ==
    [i \in 1..Len(RegisteredTools) |->
        [tool |-> RegisteredTools[i], surface |-> SurfaceOf(RegisteredTools[i])]]

\* variant: the repaint composes onto the base image, as the flatten does
Redraw_flattens ==
    /\ Observe("tick", NoPoint)
    /\ painted' = painted \o Flatten
    /\ preview' = [base |-> OnDraw, layers |-> OnDrawAnnotations]
    /\ err' = "none"
    /\ UNCHANGED <<current_tool, color, pen, rect, crop, image, image_rect,
                   default_size, output, gesture>>

\* Main.redraw, every 50 ms, and the draw signals its queue_draw leads to
Redraw ==
    /\ Observe("tick", NoPoint)
    /\ preview' = [base |-> OnDraw, layers |-> OnDrawAnnotations]
    /\ UNCHANGED <<current_tool, color, pen, rect, crop, image, painted, image_rect,
                   default_size, output, err, gesture>>

Next ==
    \/ \E tool \in ToolLabels : ChangeTool(tool)
    \/ \E ok \in BOOLEAN, rgba \in Colors : OpenColorChooser(ok, rgba)
    \/ \E event \in Points : OnMousePress(event)
    \/ \E event \in Points : OnMouseMove(event)
    \/ \E event \in Points : OnMouseRelease(event)
    \/ OnUndo
    \/ CopyToClipboard
    \/ SaveToFile
    \/ Redraw

Spec == Init /\ [][Next]_vars

-----------------------------------------------------------------------------
(* Properties *)

\* a handler ran in this step, and it was op
Ran(op) == steps' = steps + 1 /\ lastOp'.op = op

DrawingTools == {"Pen", "Rectangle"}

\* C1: for Pen, a press at p0, moves to p1..pn and a release append exactly one
\* stroke to the history, and its points are <<p0, p1, ..., pn>>.
C1_PenStrokeStartsAtPress ==
    (lastOp.op = "release" /\ lastOp.tool = "Pen" /\ lastOp.g # NoGesture)
        => /\ Len(pen.paths) = Len(lastOp.hist0) + 1
           /\ pen.paths[Len(pen.paths)].points = <<lastOp.g[1].p0>> \o lastOp.g[1].moves

\* C2: for Rectangle, a press at s, any moves and a release at e append exactly
\* one shape with points <<s, e>> and the session colour of the press, and the
\* transient start and end points are None afterwards.
C2_RectangleCommit ==
    (lastOp.op = "release" /\ lastOp.tool = "Rectangle" /\ lastOp.g # NoGesture)
        => /\ rect.rectangles =
                Append(lastOp.hist0, [points |-> <<lastOp.g[1].p0, lastOp.pt>>,
                                      color |-> lastOp.g[1].color])
           /\ rect.start_point = NoPoint
           /\ rect.end_point = NoPoint

\* a rectangle committed after a move to another point than the release point
\* and after the session colour changed during the drag
C2_Witness ==
    /\ lastOp.op = "release" /\ lastOp.tool = "Rectangle" /\ lastOp.g # NoGesture
    /\ lastOp.g[1].moves # <<>>
    /\ lastOp.g[1].moves[Len(lastOp.g[1].moves)] # lastOp.pt
    /\ lastOp.g[1].p0 # lastOp.pt
    /\ lastOp.g[1].color # color
    /\ err = "AttributeError"

\* C3: for Pen and Rectangle, a commit immediately followed by undo restores
\* the tool's history to its value before the commit: one shorter than after
\* the commit, the remaining shapes unchanged in content and order.
C3_UndoInverse ==
    (/\ lastOp.op = "undo" /\ prevOp.op = "release"
     /\ lastOp.tool \in DrawingTools /\ prevOp.tool = lastOp.tool)
        => /\ History(lastOp.tool, pen, rect) = prevOp.hist0
           /\ Len(History(lastOp.tool, pen, rect)) = Len(lastOp.hist0) - 1

\* an undo right after a press..release commit onto a history that held a
\* different shape already
C3_Witness ==
    /\ lastOp.op = "undo" /\ prevOp.op = "release"
    /\ lastOp.tool \in DrawingTools /\ prevOp.tool = lastOp.tool
    /\ prevOp.g # NoGesture
    /\ prevOp.hist0 # <<>>
    /\ lastOp.hist0[Len(lastOp.hist0)] # prevOp.hist0[1]

\* C4: undo on a tool whose history is empty raises nothing and leaves the
\* history, transient state and surface of every tool as they were.
C4_UndoOnEmpty ==
    [][(/\ Ran("undo")
        /\ current_tool \in ToolLabels
        /\ History(current_tool, pen, rect) = <<>>)
          => (err' = "none" /\ pen' = pen /\ rect' = rect /\ crop' = crop)]_vars

\* an undo on an empty history while the tool holds transient state
C4_Witness ==
    /\ lastOp.op = "undo" /\ lastOp.hist0 = <<>>
    /\ \/ lastOp.tool = "Pen" /\ pen.path # <<>>
       \/ lastOp.tool = "Rectangle" /\ rect.start_point # NoPoint
       \/ lastOp.tool = "Crop" /\ crop.start_point # NoPoint

\* C5: a committed shape never changes: in every step each history keeps its
\* entries, gains one at the end, or loses its last one to an undo of that
\* tool; and the stroke a Pen release commits holds the points of the buffer
\* that the release then empties.
C5_CommittedImmutable ==
    [][/\ \A t \in DrawingTools :
            LET h == History(t, pen, rect)
                k == History(t, pen', rect')
            IN \/ k = h
               \/ Len(k) = Len(h) + 1 /\ SubSeq(k, 1, Len(h)) = h
               \/ k = ButLast(h) /\ Ran("undo") /\ current_tool = t
       /\ (Ran("release") /\ current_tool = "Pen")
            => pen'.paths[Len(pen'.paths)].points = pen.path]_vars

\* a stroke with points, committed in the first colour, still in the history
\* after the colour changed and further moves arrived
C5_Witness ==
    /\ Len(pen.paths) >= 1
    /\ pen.paths[1].points # <<>>
    /\ pen.paths[1].color # color
    /\ pen.path # <<>>
    /\ lastOp.op = "move"

\* C6: in every reachable state exactly one registered tool is the active one.
C6_OneToolActive == current_tool \in ToolLabels

\* C7: a press, move or release leaves the history, transient state and
\* surface of every tool other than the active one unchanged.
C7_OnlyActiveToolReceives ==
    [][(Ran("press") \/ Ran("move") \/ Ran("release"))
          => /\ current_tool # "Pen" => pen' = pen
             /\ current_tool # "Rectangle" => rect' = rect
             /\ current_tool # "Crop" => crop' = crop]_vars

\* an event delivered to Rectangle while Pen, not active, holds a stroke
C7_Witness ==
    /\ lastOp.op \in {"press", "move", "release"}
    /\ lastOp.tool = "Rectangle"
    /\ rect.rectangles # <<>>
    /\ pen.paths # <<>>

\* C8: a release replaces the base image only when Crop is active; with Pen or
\* Rectangle active it commits the shape, raises nothing and leaves the base
\* image unchanged.
C8_ReleaseOfDrawingTool ==
    [][(/\ Ran("release")
        /\ current_tool \in DrawingTools
        /\ gesture[current_tool] # NoGesture)
          => /\ err' = "none"
             /\ image' = image
             /\ Len(History(current_tool, pen', rect')) =
                    Len(History(current_tool, pen, rect)) + 1]_vars

\* C9: for a crop pressed at (x1, y1) and released at (x2, y2), the new base
\* image is the view of the old one of width |x2 - x1| and height |y2 - y1|
\* with origin (min(x1, x2), min(y1, y2)).
C9_CropCoversSelection ==
    [][(Ran("release") /\ current_tool = "Crop" /\ gesture["Crop"] # NoGesture)
          => LET s == gesture["Crop"][1].p0
                 e == lastOp'.pt
             IN /\ image'.width = Abs(e[1] - s[1])
                /\ image'.height = Abs(e[2] - s[2])
                /\ image'.x = image.x + Min(s[1], e[1])
                /\ image'.y = image.y + Min(s[2], e[2])]_vars

\* C10: every save or copy uses the width and height of the current base
\* image, also after a crop replaced it.
C10_OutputUsesImageSize ==
    output.sink # "none" => /\ output.width = image.width
                            /\ output.height = image.height

-----------------------------------------------------------------------------
(* Properties of the surfaces, the compositing and the session colour *)

\* what a stroke with the default caps leaves on a surface: a segment or a
\* rectangle without extent leaves nothing
VisibleSegments(surf) == SelectSeq(surf, LAMBDA d : d.from # d.to)
VisibleRectangles(surf) == SelectSeq(surf, LAMBDA d : d.width # 0 \/ d.height # 0)

\* the strokes of a Pen history, in insertion order, then the buffer in progress
RECURSIVE RerenderPaths(_, _)
RerenderPaths(paths, w) ==
    IF paths = <<>> THEN <<>>
    ELSE Pen_segments(Head(paths).points, Head(paths).color, w)
            \o RerenderPaths(Tail(paths), w)

RerenderPen(p) ==
    RerenderPaths(p.paths, p.line_width) \o Pen_segments(p.path, p.color, p.line_width)

\* the shapes of a Rectangle history, in insertion order, then the one in progress
RerenderRectangle(r) ==
    LET shapes == IF r.start_point = NoPoint THEN r.rectangles
                  ELSE Append(r.rectangles,
                              [points |-> <<r.start_point, r.end_point>>, color |-> r.color])
    IN [i \in 1..Len(shapes) |->
           [at |-> shapes[i].points[1],
            width |-> shapes[i].points[2][1] - shapes[i].points[1][1],
            height |-> shapes[i].points[2][2] - shapes[i].points[1][2],
            color |-> shapes[i].color]]

\* every shape of the tool, committed or in progress, has its points and colour
PenWellFormed(p) ==
    /\ p.color # NoColor
    /\ \A i \in 1..Len(p.paths) : p.paths[i].color # NoColor

RectangleWellFormed(r) ==
    /\ \A i \in 1..Len(r.rectangles) :
          r.rectangles[i].color # NoColor /\ r.rectangles[i].points[1] # NoPoint
    /\ r.start_point # NoPoint => (r.color # NoColor /\ r.end_point # NoPoint)

\* C11: after every press, move, release and undo on Pen or Rectangle the
\* tool's surface shows the re-render of its history followed by the shape in
\* progress.
C11_SurfaceIsRerender ==
    /\ (/\ lastOp.op \in {"press", "move", "release", "undo"}
        /\ lastOp.tool = "Pen" /\ PenWellFormed(pen))
          => VisibleSegments(pen.surface) = VisibleSegments(RerenderPen(pen))
    /\ (/\ lastOp.op \in {"press", "move", "release", "undo"}
        /\ lastOp.tool = "Rectangle" /\ RectangleWellFormed(rect))
          => VisibleRectangles(rect.surface) = VisibleRectangles(RerenderRectangle(rect))

ToolsOf(layers) == [i \in 1..Len(layers) |-> layers[i].tool]

\* C12: the preview and the flatten of save and copy paint the tool surfaces
\* in the order Pen, Rectangle, Crop, whichever tool is active.
C12_FixedCompositeOrder ==
    /\ output.sink # "none" => output.order = <<"Pen", "Rectangle", "Crop">>
    /\ \A i \in 1..Len(painted) :
          painted[i].tool = <<"Pen", "Rectangle", "Crop">>[((i - 1) % 3) + 1]
    /\ preview.layers # <<>> => ToolsOf(preview.layers) = <<"Pen", "Rectangle", "Crop">>

\* a copy and a repaint after the active tool was switched away from Pen
C12_Witness ==
    /\ lastOp.op \in {"copy", "save"}
    /\ current_tool \in {"Rectangle", "Crop"}
    /\ pen.paths # <<>>
    /\ preview.layers # <<>>
    /\ Len(painted) = 3

\* C13: a change of the session colour changes no tool, so neither a committed
\* shape nor the shape in progress; and the shape a release commits has the
\* session colour of its press.
C13_ColorSampledAtPress ==
    [][/\ Ran("color") => (pen' = pen /\ rect' = rect /\ crop' = crop)
       /\ (/\ Ran("release")
           /\ current_tool \in DrawingTools
           /\ gesture[current_tool] # NoGesture)
            => LET k == History(current_tool, pen', rect')
               IN k[Len(k)].color = gesture[current_tool][1].color]_vars

\* a stroke committed right after the session colour was changed during the drag
C13_Witness ==
    /\ lastOp.op = "release" /\ lastOp.tool = "Pen" /\ lastOp.g # NoGesture
    /\ prevOp.op = "color"
    /\ lastOp.g[1].color # color
    /\ pen.paths[Len(pen.paths)].color = lastOp.g[1].color

\* no press has been delivered to the tool yet
NeverPressed(t) ==
    IF t = "Pen" THEN pen.color = NoColor
    ELSE IF t = "Rectangle" THEN rect.color = NoColor
    ELSE crop.start_point = NoPoint

\* C18: a move delivered to a tool that had no press raises nothing and
\* commits nothing.
C18_MoveWithoutPress ==
    [][(Ran("move") /\ current_tool \in ToolLabels /\ NeverPressed(current_tool))
          => /\ err' = "none"
             /\ pen'.paths = pen.paths
             /\ rect'.rectangles = rect.rectangles]_vars

\* C19: a Crop release at the press point leaves the base image and its
\* dimensions unchanged.
C19_DegenerateCropRejected ==
    [][(/\ Ran("release")
        /\ current_tool = "Crop"
        /\ gesture["Crop"] # NoGesture
        /\ crop.start_point = lastOp'.pt)
          => /\ image' = image
             /\ default_size' = default_size
             /\ image_rect' = image_rect]_vars

\* C20: the tick and the repaint it requests change no tool, nor the active
\* tool, the session colour or the base image.
C20_TickOnlyReads ==
    [][Ran("tick")
          => /\ pen' = pen /\ rect' = rect /\ crop' = crop
             /\ current_tool' = current_tool
             /\ color' = color
             /\ image' = image /\ painted' = painted /\ image_rect' = image_rect]_vars

\* a tick in the middle of a Pen drag, with the stroke in progress on screen
C20_Witness ==
    /\ lastOp.op = "tick"
    /\ prevOp.op = "move"
    /\ gesture["Pen"] # NoGesture
    /\ current_tool = "Pen"
    /\ preview.layers[1].surface # <<>>


-----------------------------------------------------------------------------
(* Startup: scrann.main, scrann.dbus *)

MaxTries == 3

Handles == {"/request/1"}
Exceptions == {"DBusError", "TimeoutError"}
NotificationIds == {7, 8}
Responses == {0, 1, 2}

SchemePrefix == <<"f", "i", "l", "e", ":", "/", "/">>
Uris == {SchemePrefix \o <<"/", "a">>, SchemePrefix \o <<"/", "b">>}
NoResults == [has_uri |-> FALSE, uri |-> <<>>]

TryAgain == "Selecting area failed, try again"
GivingUp == "Selecting area failed 3 times, giving up"

NoResult == [kind |-> "none", value |-> "None"]

\* Notifier.__init__
Notifier_init == [last_notification_id |-> 0, sent |-> <<>>, closed |-> <<>>]

\* variant: every notification is a new one
Notifier_notify_fresh(n, msg, id) ==
    [n EXCEPT !.last_notification_id = id,
              !.sent = Append(@, [msg |-> msg, replaces_id |-> 0, id |-> id])]

\* Notifier.notify; id is what the notification service returns
Notifier_notify(n, msg, id) ==
    [n EXCEPT !.last_notification_id = id,
              !.sent = Append(@, [msg |-> msg,
                                  replaces_id |-> n.last_notification_id,
                                  id |-> id])]

\* Notifier.clean_up
Notifier_clean_up(n) ==
    IF n.last_notification_id # 0
    THEN [n EXCEPT !.closed = Append(@, n.last_notification_id)]
    ELSE n

\* variant: the loop ends after the last failure without raising
retry_returns_none(num, max_tries, n, outcome, id1, id2) ==
    IF ~(num < max_tries)
    THEN [num_try |-> num, notifier |-> n, done |-> TRUE,
          result |-> [kind |-> "returned", value |-> "None"]]
    ELSE IF outcome.ok
    THEN [num_try |-> num, notifier |-> n, done |-> TRUE,
          result |-> [kind |-> "returned", value |-> outcome.value]]
    ELSE [num_try |-> num + 1, notifier |-> Notifier_notify(n, TryAgain, id1),
          done |-> FALSE, result |-> NoResult]

\* retry: one turn of its loop, fn() having had the given outcome
retry(num, max_tries, n, outcome, id1, id2) ==
    IF ~(num < max_tries)
    THEN [num_try |-> num, notifier |-> n, done |-> TRUE,
          result |-> [kind |-> "returned", value |-> "None"]]
    ELSE IF outcome.ok
    THEN [num_try |-> num, notifier |-> n, done |-> TRUE,
          result |-> [kind |-> "returned", value |-> outcome.value]]
    ELSE LET n1 == Notifier_notify(n, TryAgain, id1)
         IN IF num + 1 = max_tries
            THEN [num_try |-> num + 1,
                  notifier |-> Notifier_notify(n1, GivingUp, id2),
                  done |-> TRUE,
                  result |-> [kind |-> "raised", value |-> outcome.value]]
            ELSE [num_try |-> num + 1, notifier |-> n1, done |-> FALSE,
                  result |-> NoResult]

\* variant: a file that is not found counts as found
file_exists_always(stat) ==
    IF stat = "exists" THEN [raised |-> FALSE, value |-> TRUE]
    ELSE IF stat = "FileNotFoundError" THEN [raised |-> FALSE, value |-> TRUE]
    ELSE [raised |-> TRUE, value |-> FALSE]

\* file_exists; stat is what os.stat does
file_exists(stat) ==
    IF stat = "exists" THEN [raised |-> FALSE, value |-> TRUE]
    ELSE IF stat = "FileNotFoundError" THEN [raised |-> FALSE, value |-> FALSE]
    ELSE [raised |-> TRUE, value |-> FALSE]

\* signal_callback: the files it calls start_callback with
signal_callback(response, results) ==
    IF response = 0 /\ results.has_uri
    THEN <<SubSeq(results.uri, 8, Len(results.uri))>>
    ELSE <<>>

StartupInit ==
    /\ WindowInit
    /\ replay = Replay_init("Pen")
    /\ pc = "start"
    /\ argv \in {<<"scrann">>, <<"scrann", "shot.png">>}
    /\ fs \in {"exists", "FileNotFoundError", "PermissionError"}
    /\ subscribed = FALSE
    /\ num_try = 0
    /\ attempts = <<>>
    /\ result = NoResult
    /\ pending = <<>>
    /\ notifier = Notifier_init
    /\ started = <<>>

\* get_screenshot, up to the call of _get_screenshot
GetScreenshot ==
    /\ pc = "start"
    /\ LET found == IF Len(argv) > 1 THEN file_exists(fs)
                    ELSE [raised |-> FALSE, value |-> FALSE]
       IN IF found.raised
          THEN /\ pc' = "raised"
               /\ UNCHANGED <<subscribed, started>>
          ELSE IF found.value
          THEN /\ started' = Append(started, <<argv[2]>>)
               /\ pc' = "gtk_main"
               /\ UNCHANGED subscribed
          ELSE /\ subscribed' = TRUE
               /\ pc' = "retry"
               /\ UNCHANGED started
    /\ UNCHANGED <<argv, fs, num_try, attempts, result, pending, notifier>>
    /\ UNCHANGED <<wvars, rvars>>

\* _get_screenshot: retry(_take_screenshot, 3), one turn of the loop.  A call
\* that returned has left a request with the portal, and so has a call whose
\* reply timed out: the portal answers each of them with a Response
TakeScreenshot(outcome, id1, id2) ==
    /\ pc = "retry"
    /\ LET r == retry(num_try, MaxTries, notifier, outcome, id1, id2)
       IN /\ num_try' = r.num_try
          /\ notifier' = r.notifier
          /\ result' = r.result
          /\ attempts' = IF num_try < MaxTries THEN Append(attempts, outcome)
                         ELSE attempts
          /\ pc' = IF ~r.done THEN "retry"
                   ELSE IF r.result.kind = "raised" THEN "raised"
                   ELSE "open_uri"
          /\ pending' = IF /\ num_try < MaxTries
                           /\ outcome.ok \/ outcome.value = "TimeoutError"
                        THEN Append(pending, "Screenshot") ELSE pending
    /\ UNCHANGED <<argv, fs, subscribed, started>>
    /\ UNCHANGED <<wvars, rvars>>

\* open_uri(_get_screenshot()), then Gtk.main()
OpenUri(ok) ==
    /\ pc = "open_uri"
    /\ pc' = IF ok THEN "gtk_main" ELSE "raised"
    /\ pending' = IF ok THEN Append(pending, "OpenURI") ELSE pending
    /\ UNCHANGED <<argv, fs, subscribed, num_try, attempts, result, notifier,
                   started>>
    /\ UNCHANGED <<wvars, rvars>>

\* the main loop delivers a Response of the portal to signal_callback
SignalCallback(response, results) ==
    /\ pc = "gtk_main"
    /\ subscribed
    /\ pending # <<>>
    /\ Head(pending) = "OpenURI" => ~results.has_uri
    /\ pending' = Tail(pending)
    /\ started' = started \o signal_callback(response, results)
    /\ UNCHANGED <<pc, argv, fs, subscribed, num_try, attempts, result,
                   notifier>>
    /\ UNCHANGED <<wvars, rvars>>

\* the window is closed: Gtk.main_quit
Quit ==
    /\ pc = "gtk_main"
    /\ started # <<>>
    /\ pc' = "returned"
    /\ UNCHANGED <<argv, fs, subscribed, num_try, attempts, result, pending,
                   notifier, started>>
    /\ UNCHANGED <<wvars, rvars>>

\* main: except KeyboardInterrupt
Interrupt ==
    /\ pc \in {"start", "retry", "open_uri", "gtk_main"}
    /\ pc' = "returned"
    /\ UNCHANGED <<argv, fs, subscribed, num_try, attempts, result, pending,
                   notifier, started>>
    /\ UNCHANGED <<wvars, rvars>>

\* main: finally notifier.clean_up()
CleanUp ==
    /\ pc \in {"raised", "returned"}
    /\ notifier' = Notifier_clean_up(notifier)
    /\ pc' = IF pc = "raised" THEN "failed" ELSE "exited"
    /\ UNCHANGED <<argv, fs, subscribed, num_try, attempts, result, pending,
                   started>>
    /\ UNCHANGED <<wvars, rvars>>

Outcomes ==
    {[ok |-> TRUE, value |-> h] : h \in Handles}
        \cup {[ok |-> FALSE, value |-> e] : e \in Exceptions}

ResponseResults == {NoResults} \cup {[has_uri |-> TRUE, uri |-> u] : u \in Uris}

StartupNext ==
    \/ GetScreenshot
    \/ \E o \in Outcomes, id1, id2 \in NotificationIds : TakeScreenshot(o, id1, id2)
    \/ \E ok \in BOOLEAN : OpenUri(ok)
    \/ \E r \in Responses, res \in ResponseResults : SignalCallback(r, res)
    \/ Quit
    \/ Interrupt
    \/ CleanUp

StartupSpec == StartupInit /\ [][StartupNext]_vars

-----------------------------------------------------------------------------
(* Properties of the startup *)

Failed == {i \in DOMAIN attempts : ~attempts[i].ok}
Sent(msg) == {i \in DOMAIN notifier.sent : notifier.sent[i].msg = msg}

\* C14: retry calls the function at most 3 times; a success is returned at
\* once, so no attempt follows it; when all 3 attempts fail, retry raises the
\* last failure, and it raises in no other case
C14_RetryAtMostThree ==
    /\ Len(attempts) <= MaxTries
    /\ \A i \in DOMAIN attempts :
           attempts[i].ok =>
               /\ i = Len(attempts)
               /\ result = [kind |-> "returned", value |-> attempts[i].value]
    /\ Cardinality(Failed) = MaxTries =>
           result = [kind |-> "raised", value |-> attempts[MaxTries].value]
    /\ result.kind = "raised" => Cardinality(Failed) = MaxTries
    /\ result.kind = "returned" => attempts[Len(attempts)].ok

C14_Witness ==
    /\ Cardinality(Failed) = MaxTries
    /\ result.kind = "raised"
    /\ attempts[1].value # attempts[MaxTries].value

\* C15: there is one 'try again' notification per failed attempt, every
\* notification passes the id the previous one returned (the first passes 0),
\* 'giving up' is sent once, only after the 3rd failure, and is the last
\* notification when the error propagates; without a failure nothing is sent
C15_Notifications ==
    /\ Cardinality(Sent(TryAgain)) = Cardinality(Failed)
    /\ \A i \in DOMAIN notifier.sent :
           notifier.sent[i].replaces_id =
               IF i = 1 THEN 0 ELSE notifier.sent[i - 1].id
    /\ Cardinality(Sent(GivingUp)) =
           IF Cardinality(Failed) = MaxTries THEN 1 ELSE 0
    /\ \A i \in Sent(GivingUp) : i = Len(notifier.sent)
    /\ Failed = {} => notifier.sent = <<>>
    /\ pc = "failed" /\ result.kind = "raised" =>
           notifier.sent[Len(notifier.sent)].msg = GivingUp

C15_Witness ==
    /\ pc = "failed"
    /\ Cardinality(Failed) = MaxTries
    /\ Len(notifier.sent) = MaxTries + 1
    /\ notifier.sent[2].replaces_id # notifier.sent[3].replaces_id

\* C16: startup does not come to rest waiting: whenever the program sits in
\* the main loop and no Response of the portal is outstanding, a session has
\* been started
C16_NeverWaitsForNothing ==
    pc = "gtk_main" /\ pending = <<>> => started # <<>>

\* C17: without a file argument, or with the name of a file that does not
\* exist, get_screenshot raises nothing: it subscribes and goes on to ask for
\* a capture, and startup fails only after it asked; with the name of an
\* existing file the session is started with that file, nothing is
\* subscribed, no capture is asked for, and startup does not fail
C17_FileArgument ==
    /\ (Len(argv) = 1 \/ fs = "FileNotFoundError")
           /\ pc \notin {"start", "returned", "exited"} =>
           /\ subscribed
           /\ pc \in {"raised", "failed"} => attempts # <<>>
           /\ attempts = <<>> => pc = "retry" /\ started = <<>>
    /\ Len(argv) > 1 /\ fs = "exists" =>
           /\ attempts = <<>>
           /\ ~subscribed
           /\ pc \in {"start", "gtk_main", "returned", "exited"}
           /\ pc = "gtk_main" => started = <<(<<argv[2]>>)>>

C17_Witness ==
    /\ Len(argv) > 1
    /\ fs = "FileNotFoundError"
    /\ subscribed
    /\ attempts # <<>>


\* C28: start_callback is called at most once in a run of the program
C28_OneSession == Len(started) <= 1


-----------------------------------------------------------------------------
(* Replay: two instances of Pen, or of Rectangle, fed events directly *)

MaxReplay == 4

ReplayEvents ==
    {[op |-> "press", pt |-> p, color |-> c] : p \in Points, c \in Colors}
        \cup {[op |-> o, pt |-> p, color |-> NoColor] :
                  o \in {"move", "release"}, p \in Points}
        \cup {[op |-> "undo", pt |-> NoPoint, color |-> NoColor]}

\* the handler of the tool that the event names
Feed(kind, t, ev) ==
    IF kind = "Pen"
    THEN IF ev.op = "press" THEN Pen_on_mouse_press(t, ev.pt, ev.color)
         ELSE IF ev.op = "move" THEN Pen_on_mouse_move(t, ev.pt)
         ELSE IF ev.op = "release" THEN Pen_on_mouse_release(t, ev.pt)
         ELSE Pen_undo(t)
    ELSE IF ev.op = "press" THEN Rectangle_on_mouse_press(t, ev.pt, ev.color)
         ELSE IF ev.op = "move" THEN Rectangle_on_mouse_move(t, ev.pt)
         ELSE IF ev.op = "release" THEN Rectangle_on_mouse_release(t, ev.pt)
         ELSE Rectangle_undo(t)

\* Pen.__init__, Rectangle.__init__, twice
ReplayInit ==
    /\ WindowInit
    /\ pc = "gtk_main"
    /\ argv = <<"scrann", "shot.png">>
    /\ fs = "exists"
    /\ subscribed = FALSE
    /\ num_try = 0
    /\ attempts = <<>>
    /\ result = NoResult
    /\ pending = <<>>
    /\ notifier = Notifier_init
    /\ started = <<(<<"shot.png">>)>>
    /\ replay \in {Replay_init(kind) : kind \in DrawingTools}

\* the same event is delivered to both instances
FeedBoth(ev) ==
    /\ replay.fed < MaxReplay
    /\ replay' = [replay EXCEPT !.a = Feed(replay.kind, @, ev).tool,
                                !.b = Feed(replay.kind, @, ev).tool,
                                !.fed = @ + 1]
    /\ UNCHANGED <<wvars, svars>>

\* an event is delivered to one of the instances only
FeedOne(which, ev) ==
    /\ replay.fed < MaxReplay
    /\ replay' = IF which = "a"
                 THEN [replay EXCEPT !.a = Feed(replay.kind, @, ev).tool,
                                     !.same = FALSE, !.fed = @ + 1]
                 ELSE [replay EXCEPT !.b = Feed(replay.kind, @, ev).tool,
                                     !.same = FALSE, !.fed = @ + 1]
    /\ UNCHANGED <<wvars, svars>>

ReplayNext ==
    \/ \E ev \in ReplayEvents : FeedBoth(ev)
    \/ \E which \in {"a", "b"}, ev \in ReplayEvents : FeedOne(which, ev)

ReplaySpec == ReplayInit /\ [][ReplayNext]_vars

\* history and transient state of an instance: everything but its surface
StateOf(kind, t) ==
    IF kind = "Pen" THEN <<t.paths, t.path, t.color, t.line_width>>
    ELSE <<t.rectangles, t.start_point, t.end_point, t.color>>

\* what is to be seen on the surface of an instance
VisibleOn(kind, t) ==
    IF kind = "Pen" THEN VisibleSegments(t.surface) ELSE VisibleRectangles(t.surface)

\* C21: two instances fed the same events are equal in history, transient
\* state and surface; and two instances that are equal in history and
\* transient state show the same surface, whatever they were fed
C21_RedrawDeterminism ==
    /\ replay.same => replay.a = replay.b
    /\ StateOf(replay.kind, replay.a) = StateOf(replay.kind, replay.b)
          => VisibleOn(replay.kind, replay.a) = VisibleOn(replay.kind, replay.b)


-----------------------------------------------------------------------------
(* Properties of the transient state, the histories and the routing *)

\* C22: a Crop release keeps the start point, records the release point as end
\* point and changes neither drawing tool, and after a press the pair serves
\* the update_surface that follows; an undo with Crop active changes no tool,
\* nor the base image, the session colour or the active tool
C22_CropKeepsNoHistory ==
    [][/\ (Ran("release") /\ current_tool = "Crop")
            => /\ crop'.start_point = crop.start_point
               /\ crop'.end_point = lastOp'.pt
               /\ pen' = pen /\ rect' = rect
               /\ crop.start_point # NoPoint => err' = "none"
       /\ (Ran("undo") /\ current_tool = "Crop")
            => /\ crop' = crop /\ pen' = pen /\ rect' = rect
               /\ image' = image /\ painted' = painted
               /\ image_rect' = image_rect /\ default_size' = default_size
               /\ color' = color /\ current_tool' = current_tool
               /\ err' = "none"]_vars

\* an undo right after a crop from one point to another
C22_Witness ==
    /\ lastOp.op = "undo" /\ lastOp.tool = "Crop"
    /\ prevOp.op = "release" /\ prevOp.tool = "Crop" /\ prevOp.g # NoGesture
    /\ crop.start_point = prevOp.g[1].p0
    /\ crop.end_point = prevOp.pt
    /\ crop.start_point # crop.end_point

\* C23: the Pen buffer is empty whenever no press of Pen is in flight, and the
\* stroke a release commits holds the points moved to since its press only
C23_PenBufferFresh ==
    /\ gesture["Pen"] = NoGesture => pen.path = <<>>
    /\ (lastOp.op = "release" /\ lastOp.tool = "Pen" /\ lastOp.g # NoGesture)
          => pen.paths[Len(pen.paths)].points = lastOp.g[1].moves

\* C24: a switch of the active tool changes no tool, and no step changes a
\* tool that is not the active one: what a tool holds in progress at the
\* switch stays as it is, uncommitted, while another tool is active
C24_SwitchLeavesTransient ==
    [][/\ Ran("change_tool") => (pen' = pen /\ rect' = rect /\ crop' = crop)
       /\ current_tool # "Pen" => pen' = pen
       /\ current_tool # "Rectangle" => rect' = rect
       /\ current_tool # "Crop" => crop' = crop]_vars

\* the release of a Pen drag went to Rectangle after a switch; the Pen buffer
\* still holds the points of the drag, and nothing was committed
C24_Witness ==
    /\ lastOp.op = "release" /\ lastOp.tool = "Rectangle"
    /\ prevOp.op = "change_tool" /\ prevOp.tool = "Pen"
    /\ gesture["Pen"] # NoGesture
    /\ pen.path = gesture["Pen"][1].moves
    /\ pen.path # <<>>
    /\ pen.paths = <<>>

\* C25: every committed rectangle has a start point, an end point and a
\* colour, and every committed stroke has a colour
C25_HistoriesWellFormed ==
    /\ \A i \in 1..Len(rect.rectangles) :
          /\ rect.rectangles[i].points[1] # NoPoint
          /\ rect.rectangles[i].points[2] # NoPoint
          /\ rect.rectangles[i].color # NoColor
    /\ \A i \in 1..Len(pen.paths) : pen.paths[i].color # NoColor

\* C26: an undo removes the last shape of the active tool's history, or
\* nothing when that history is empty, and changes no other tool
C26_UndoActiveToolOnly ==
    [][Ran("undo")
          => /\ \A t \in DrawingTools :
                   History(t, pen', rect') =
                       IF t = current_tool /\ History(t, pen, rect) # <<>>
                       THEN ButLast(History(t, pen, rect))
                       ELSE History(t, pen, rect)
             /\ current_tool # "Pen" => pen' = pen
             /\ current_tool # "Rectangle" => rect' = rect
             /\ crop' = crop]_vars

\* an undo with Pen active, right after a switch away from Rectangle, whose
\* history holds a shape
C26_Witness ==
    /\ lastOp.op = "undo" /\ lastOp.tool = "Pen"
    /\ prevOp.op = "change_tool" /\ prevOp.tool = "Rectangle"
    /\ lastOp.hist0 # <<>>
    /\ pen.paths = ButLast(lastOp.hist0)
    /\ rect.rectangles # <<>>

\* C27: while no press of Crop is in flight the Crop surface shows nothing,
\* and so does the Crop layer that a save or a copy paints then
C27_CropSurfaceClearOutsideDrag ==
    /\ gesture["Crop"] = NoGesture => VisibleRectangles(crop.surface) = <<>>
    /\ (lastOp.op \in {"copy", "save"} /\ gesture["Crop"] = NoGesture)
          => VisibleRectangles(painted[Len(painted)].surface) = <<>>

====
